---- MODULE Spec2Model ----
(***************************************************************************)
(* State-machine model of the CHIP-8 engine emu::CHIP8 (src/chip8.h and    *)
(* the first translation unit of src/chip8.cpp, lines 1-855) together with *)
(* the host's emu::ROM object (src/unnamed/part_002).                      *)
(*                                                                         *)
(* mRAM and mDisplayBuffer are zero-initialised byte arrays.  They are     *)
(* represented by the function that maps every address holding a non-zero  *)
(* byte to that byte; Rd gives 0 for every other address and Wr keeps the  *)
(* representation canonical, so two memories are equal exactly when the    *)
(* two arrays are equal byte for byte.                                     *)
(*                                                                         *)
(* OnError throws std::runtime_error.  The engine object survives the      *)
(* throw with whatever was modified before it; the message of the          *)
(* exception thrown by the last call is kept in hFault.                    *)
(***************************************************************************)
EXTENDS Integers, Sequences, FiniteSets, TLC

VARIABLES
    rom,                \* emu::ROM::mData of the host's ROM object
    mRAM, mDisplayBuffer, mRegisters, mPC, mI, mDelayTimer, mSoundTimer,
    mKeyboard, mKeyboardRegister, mStackFrames, mStack,
    hOp,                \* the last call made on the engine
    hRet,               \* what the last Load returned
    hFault,             \* message of the exception the last call threw, "" if none
    hIns,               \* the last instruction fetched by the last Step, -1 if none
    hPre,               \* engine state before that instruction (before the call, for Load and Tick)
    hTouched,           \* mRAM indices read or written by that instruction
    hRegWrites,         \* mRegisters indices written by the key-wait resume of the last Step
    hExec,              \* number of instructions fetched by the last Step
    hDone,              \* the instructions the last Step fetched and dispatched
    hSound,             \* value the last FX18 stored in mSoundTimer, Ticks since (at most that value)
    hDrawn,             \* the bytes holding the 64 x 32 pixels as they were at the last Draw
    hWait,              \* keyboard, registers and PC at the start of its last iteration
    hCallSites,         \* hCallSites[k]: address of the call instruction that pushed frame k
    hPeak,              \* greatest stack height since the stack was last empty
    hStepped,           \* the host has started stepping
    hFaults,            \* number of exceptions thrown so far
    hLoads              \* number of calls of CHIP8::Load so far

mvars == <<mRAM, mDisplayBuffer, mRegisters, mPC, mI, mDelayTimer, mSoundTimer,
           mKeyboard, mKeyboardRegister, mStackFrames, mStack>>
hvars == <<hOp, hRet, hFault, hIns, hPre, hTouched, hRegWrites, hExec, hDone, hSound,
           hDrawn, hWait, hCallSites, hPeak, hStepped, hFaults, hLoads>>
vars == <<rom, mvars, hvars>>

-----------------------------------------------------------------------------
(* Program constants *)

RAMSize == 4096
kDisplayStart == 3840
kDisplaySize == 255
kDisplayWidth == 64
kDisplayHeight == 32
kCharacterSpritesStart == 16
NumRegisters == 16
NumKeys == 16
StackSize == 24
NotWaiting == 255
InsSize == 2
OffsetCHIP8 == 512
OffsetETI660 == 1536

Program == {"CHIP8", "ETI660"}

kCharacterSprites ==
    << 240, 144, 144, 144, 240,
        96, 160,  32,  32, 240,
       240,  16, 240, 128, 240,
       240,  16, 240,  16, 240,
       144, 144, 240,  16,  16,
       240, 128, 240,  16, 240,
       240, 128, 240, 144, 240,
       240,  16,  16,  16,  16,
       240, 144, 240, 144, 240,
       240, 144, 240,  16,  16,
       240, 144, 240, 144, 144,
       224, 144, 224, 144, 224,
       240, 128, 128, 128, 240,
       224, 144, 144, 144, 224,
       240, 128, 240, 128, 240,
       240, 128, 240, 128, 128 >>

-----------------------------------------------------------------------------
(* Bounds of the model *)

MaxFaults == 2      \* exceptions the host catches before it stops stepping
MaxBatch == 1       \* greatest argument of Step
MaxLoads == 2       \* calls of Load the host makes on one engine

\* keyboard snapshots the host supplies
KeyStates == {{}, {3}, {3, 9}}

\* bytes an out-of-bounds read may yield besides the neighbouring member
UndefBytes == {0, 255}

-----------------------------------------------------------------------------
(* Bytes and byte arrays *)

Bit(v, i) == (v \div (2 ^ i)) % 2

And8(a, b) ==
    Bit(a,0)*Bit(b,0) + 2*Bit(a,1)*Bit(b,1) + 4*Bit(a,2)*Bit(b,2)
    + 8*Bit(a,3)*Bit(b,3) + 16*Bit(a,4)*Bit(b,4) + 32*Bit(a,5)*Bit(b,5)
    + 64*Bit(a,6)*Bit(b,6) + 128*Bit(a,7)*Bit(b,7)

Xor8(a, b) ==
    ((Bit(a,0)+Bit(b,0)) % 2) + 2*((Bit(a,1)+Bit(b,1)) % 2)
    + 4*((Bit(a,2)+Bit(b,2)) % 2) + 8*((Bit(a,3)+Bit(b,3)) % 2)
    + 16*((Bit(a,4)+Bit(b,4)) % 2) + 32*((Bit(a,5)+Bit(b,5)) % 2)
    + 64*((Bit(a,6)+Bit(b,6)) % 2) + 128*((Bit(a,7)+Bit(b,7)) % 2)

Or8(a, b) == a + b - And8(a, b)

Rd(arr, a) == IF a \in DOMAIN arr THEN arr[a] ELSE 0

Wr(arr, a, v) ==
    IF Rd(arr, a) = v THEN arr
    ELSE IF v = 0 THEN [x \in DOMAIN arr \ {a} |-> arr[x]]
    ELSE [x \in DOMAIN arr \cup {a} |-> IF x = a THEN v ELSE arr[x]]

Zeroed == [x \in {} |-> 0]

\* std::copy / std::memcpy of the byte sequence data to arr[at], arr[at+1], ...
CopyIn(arr, at, data) ==
    LET dst == at .. (at + Len(data) - 1)
        keep == {x \in DOMAIN arr : x \notin dst}
        set == {x \in dst : data[x - at + 1] # 0}
    IN [x \in keep \cup set |-> IF x \in dst THEN data[x - at + 1] ELSE arr[x]]

\* the bytes arr[from .. from+n-1] laid out at 0 .. n-1
Slice(arr, from, n) ==
    LET src == {x \in DOMAIN arr : x >= from /\ x < from + n}
    IN [x \in {y - from : y \in src} |-> arr[x + from]]

\* arr with arr[from .. from+n-1] set to zero
ZeroFill(arr, from, n) ==
    [x \in {y \in DOMAIN arr : y < from \/ y >= from + n} |-> arr[x]]

-----------------------------------------------------------------------------
(* The engine as a value *)

Cur ==
    [RAM |-> mRAM, DisplayBuffer |-> mDisplayBuffer, Registers |-> mRegisters,
     PC |-> mPC, I |-> mI, DelayTimer |-> mDelayTimer, SoundTimer |-> mSoundTimer,
     Keyboard |-> mKeyboard, KeyboardRegister |-> mKeyboardRegister,
     StackFrames |-> mStackFrames, Stack |-> mStack]

Commit(m) ==
    /\ mRAM' = m.RAM
    /\ mDisplayBuffer' = m.DisplayBuffer
    /\ mRegisters' = m.Registers
    /\ mPC' = m.PC
    /\ mI' = m.I
    /\ mDelayTimer' = m.DelayTimer
    /\ mSoundTimer' = m.SoundTimer
    /\ mKeyboard' = m.Keyboard
    /\ mKeyboardRegister' = m.KeyboardRegister
    /\ mStackFrames' = m.StackFrames
    /\ mStack' = m.Stack

\* CHIP8::CHIP8()
Constructed ==
    [RAM |-> Zeroed, DisplayBuffer |-> Zeroed,
     Registers |-> [r \in 0..(NumRegisters - 1) |-> 0],
     PC |-> 0, I |-> 0, DelayTimer |-> 0, SoundTimer |-> 0,
     Keyboard |-> {}, KeyboardRegister |-> NotWaiting,
     StackFrames |-> [k \in 0..(StackSize - 1) |-> 0], Stack |-> 0]

\* result of a handler: the engine, the exception thrown, the mRAM indices used
Out(m, fault, touched) == [m |-> m, fault |-> fault, touched |-> touched]

\* CHIP8::OnError: Dump() prints, then the exception leaves the handler
OnError(m, msg) == Out(m, msg, {})

-----------------------------------------------------------------------------
(* Instruction handlers.  Each takes the engine after the fetch and the     *)
(* instruction, and gives the set of outcomes the handler can have.         *)

\* CHIP8::Unhandled: the message names the instruction, kept in hIns here
Unhandled(m, ins) == OnError(m, "Unhandled instruction")

\* SkipChecked with the test after the addition
SkipChecked_AdvancesFirst(m) ==
    LET skipped == [m EXCEPT !.PC = (m.PC + InsSize) % 65536]
    IN  IF skipped.PC >= RAMSize
        THEN OnError(skipped, "Branching outside of RAM")
        ELSE Out(skipped, "", {})

\* the "Skip an instruction" block of Handle_3, Handle_4, Handle_5 and Handle_9
SkipChecked(m) ==
    IF m.PC + InsSize >= RAMSize
    THEN OnError(m, "Branching outside of RAM")
    ELSE Out([m EXCEPT !.PC = (m.PC + InsSize) % 65536], "", {})

Handle_0(m, ins) ==
    LET program == ins % 4096
    IN  IF program = \h00E0
        THEN {Out([m EXCEPT !.RAM = ZeroFill(m.RAM, kDisplayStart, kDisplaySize)], "",
                  kDisplayStart .. (kDisplayStart + kDisplaySize - 1))}
        ELSE IF program = \h00EE
        THEN IF m.Stack = 0
             THEN {OnError(m, "Out of stack frames")}
             ELSE LET popped == [m EXCEPT !.Stack = m.Stack - 1]
                      address == popped.StackFrames[popped.Stack]
                  IN  IF address >= RAMSize
                      THEN {OnError(popped, "Invalid address on stack")}
                      ELSE {Out([popped EXCEPT !.PC = address], "", {})}
        ELSE {Unhandled(m, ins)}

Handle_1(m, ins) ==
    LET address == ins % 4096
    IN  {Out([m EXCEPT !.PC = address], "", {})}

Handle_2_PushesCallAddress(m, ins) ==
    LET address == ins % 4096
    IN  IF m.Stack + 1 > StackSize
        THEN {OnError(m, "Out of stack frames")}
        ELSE {Out([m EXCEPT !.StackFrames[m.Stack] = (m.PC - InsSize) % 65536,
                            !.Stack = m.Stack + 1,
                            !.PC = address], "", {})}

Handle_2_FullAfterPush(m, ins) ==
    LET address == ins % 4096
    IN  IF m.Stack > StackSize
        THEN {OnError(m, "Out of stack frames")}
        ELSE {Out([m EXCEPT !.StackFrames =
                               IF m.Stack \in DOMAIN m.StackFrames
                               THEN [m.StackFrames EXCEPT ![m.Stack] = m.PC]
                               ELSE m.StackFrames,
                            !.Stack = m.Stack + 1,
                            !.PC = address], "", {})}

Handle_2(m, ins) ==
    LET address == ins % 4096
    IN  IF m.Stack + 1 > StackSize
        THEN {OnError(m, "Out of stack frames")}
        ELSE {Out([m EXCEPT !.StackFrames[m.Stack] = m.PC,
                            !.Stack = m.Stack + 1,
                            !.PC = address], "", {})}

Handle_3(m, ins) ==
    LET reg == (ins \div 256) % 16
        val == ins % 256
    IN  IF m.Registers[reg] = val THEN {SkipChecked(m)} ELSE {Out(m, "", {})}

Handle_4(m, ins) ==
    LET reg == (ins \div 256) % 16
        val == ins % 256
    IN  IF m.Registers[reg] # val THEN {SkipChecked(m)} ELSE {Out(m, "", {})}

\* Handle_5 without the switch on the low nibble
Handle_5_IgnoresOp(m, ins) ==
    LET rx == (ins \div 256) % 16
        ry == (ins \div 16) % 16
    IN  IF m.Registers[rx] = m.Registers[ry] THEN {SkipChecked(m)} ELSE {Out(m, "", {})}

Handle_5(m, ins) ==
    LET rx == (ins \div 256) % 16
        ry == (ins \div 16) % 16
        op == ins % 16
        x == m.Registers[rx]
        y == m.Registers[ry]
    IN  IF op = 0
        THEN IF x = y THEN {SkipChecked(m)} ELSE {Out(m, "", {})}
        ELSE {Unhandled(m, ins)}

Handle_6(m, ins) ==
    LET reg == (ins \div 256) % 16
        val == ins % 256
    IN  {Out([m EXCEPT !.Registers[reg] = val], "", {})}

Handle_7(m, ins) ==
    LET reg == (ins \div 256) % 16
        val == ins % 256
    IN  {Out([m EXCEPT !.Registers[reg] = (m.Registers[reg] + val) % 256], "", {})}

\* "const bool carry = x + y > 0xFF" of case 0x4 of Handle_8
carry_FromFF(x, y) == x + y >= 255

carry(x, y) == x + y > 255

\* "const bool borrow = x < y" of case 0x5; case 0x7 has it with x and y exchanged
borrow_WhenEqual(x, y) == x <= y

borrow(x, y) == x < y

\* "(x >> 7) & 1" of case 0xE
ShiftedOutLeft_Bit0(x) == Bit(x, 0)

ShiftedOutLeft(x) == Bit(x, 7)

\* "(x >> 0) & 1" of case 0x6
ShiftedOutRight(x) == Bit(x, 0)

\* Handle_8 testing only the X field for register 0xF
Handle_8_ChecksOnlyX(m, ins) ==
    LET rx == (ins \div 256) % 16
        ry == (ins \div 16) % 16
        op == ins % 16
        x == m.Registers[rx]
        y == m.Registers[ry]
        SetX(v) == {Out([m EXCEPT !.Registers[rx] = v], "", {})}
        \* the handler writes x first and mRegisters[0xF] second
        SetXF(v, f) == {Out([m EXCEPT !.Registers =
                                 [[m.Registers EXCEPT ![rx] = v] EXCEPT ![15] = f]], "", {})}
        \* the shifts write mRegisters[0xF] first and x second
        SetFX(f, v) == {Out([m EXCEPT !.Registers =
                                 [[m.Registers EXCEPT ![15] = f] EXCEPT ![rx] = v]], "", {})}
        Ordering == rx = 15
    IN  CASE op = 0 -> SetX(y)
          [] op = 1 -> SetX(Or8(x, y))
          [] op = 2 -> SetX(And8(x, y))
          [] op = 3 -> SetX(Xor8(x, y))
          [] op = 4 -> IF Ordering THEN {OnError(m, "Ordering")}
                       ELSE SetXF((x + y) % 256, IF carry(x, y) THEN 1 ELSE 0)
          [] op = 5 -> IF Ordering THEN {OnError(m, "Ordering")}
                       ELSE SetXF((x - y) % 256, IF borrow(x, y) THEN 0 ELSE 1)
          [] op = 7 -> IF Ordering THEN {OnError(m, "Ordering")}
                       ELSE SetXF((y - x) % 256, IF borrow(y, x) THEN 0 ELSE 1)
          [] op = 6 -> IF Ordering THEN {OnError(m, "Ordering")}
                       ELSE SetFX(ShiftedOutRight(x), x \div 2)
          [] op = 14 -> IF Ordering THEN {OnError(m, "Ordering")}
                        ELSE SetFX(ShiftedOutLeft(x), (x * 2) % 256)
          [] OTHER -> {Unhandled(m, ins)}

\* x and y of Handle_8: x is a reference to mRegisters[rx], y a copy of mRegisters[ry]
Handle_8(m, ins) ==
    LET rx == (ins \div 256) % 16
        ry == (ins \div 16) % 16
        op == ins % 16
        x == m.Registers[rx]
        y == m.Registers[ry]
        SetX(v) == {Out([m EXCEPT !.Registers[rx] = v], "", {})}
        \* the handler writes x first and mRegisters[0xF] second
        SetXF(v, f) == {Out([m EXCEPT !.Registers =
                                 [[m.Registers EXCEPT ![rx] = v] EXCEPT ![15] = f]], "", {})}
        \* the shifts write mRegisters[0xF] first and x second
        SetFX(f, v) == {Out([m EXCEPT !.Registers =
                                 [[m.Registers EXCEPT ![15] = f] EXCEPT ![rx] = v]], "", {})}
        Ordering == rx = 15 \/ ry = 15
    IN  CASE op = 0 -> SetX(y)
          [] op = 1 -> SetX(Or8(x, y))
          [] op = 2 -> SetX(And8(x, y))
          [] op = 3 -> SetX(Xor8(x, y))
          [] op = 4 -> IF Ordering THEN {OnError(m, "Ordering")}
                       ELSE SetXF((x + y) % 256, IF carry(x, y) THEN 1 ELSE 0)
          [] op = 5 -> IF Ordering THEN {OnError(m, "Ordering")}
                       ELSE SetXF((x - y) % 256, IF borrow(x, y) THEN 0 ELSE 1)
          [] op = 7 -> IF Ordering THEN {OnError(m, "Ordering")}
                       ELSE SetXF((y - x) % 256, IF borrow(y, x) THEN 0 ELSE 1)
          [] op = 6 -> IF Ordering THEN {OnError(m, "Ordering")}
                       ELSE SetFX(ShiftedOutRight(x), x \div 2)
          [] op = 14 -> IF Ordering THEN {OnError(m, "Ordering")}
                        ELSE SetFX(ShiftedOutLeft(x), (x * 2) % 256)
          [] OTHER -> {Unhandled(m, ins)}

Handle_9(m, ins) ==
    LET rx == (ins \div 256) % 16
        ry == (ins \div 16) % 16
        op == ins % 16
        x == m.Registers[rx]
        y == m.Registers[ry]
    IN  IF op = 0
        THEN IF x # y THEN {SkipChecked(m)} ELSE {Out(m, "", {})}
        ELSE {Unhandled(m, ins)}

Handle_A_LowByte(m, ins) ==
    LET address == ins % 256
    IN  {Out([m EXCEPT !.I = address], "", {})}

Handle_A(m, ins) ==
    LET address == ins % 4096
    IN  {Out([m EXCEPT !.I = address], "", {})}

Handle_B(m, ins) ==
    LET address == ins % 4096
    IN  IF m.Registers[0] + address > RAMSize
        THEN {OnError(m, "Trying to jump out of RAM")}
        ELSE {Out([m EXCEPT !.PC = (m.Registers[0] + address) % 65536], "", {})}

\* rand() yields any int; "rand() & max" keeps its low eight bits under the
\* mask, so r ranges over every byte
Handle_C(m, ins) ==
    LET reg == (ins \div 256) % 16
        max == ins % 256
        vals == {And8(r, max) : r \in 0..255}
    IN  {Out([m EXCEPT !.Registers[reg] = val], "", {}) : val \in vals}

\* "dstBlock ^= (srcBit ? 1 : 0) << pixelBlockBit" of Handle_D
FlipPixel_Or(dstBlock, srcBit, pixelBlockBit) ==
    Or8(dstBlock, srcBit * (2 ^ pixelBlockBit))

FlipPixel(dstBlock, srcBit, pixelBlockBit) ==
    Xor8(dstBlock, srcBit * (2 ^ pixelBlockBit))

\* BlitPixel leaving out the pixels past the right and the bottom edge
BlitPixel_Clips(st, srcBase, baseX, baseY, srcY, srcX) ==
    LET ram == st[1]
        dispX == srcX + baseX
        dispY == srcY + baseY
        pixelNum == dispY * kDisplayWidth + dispX
        pixelBlockNum == pixelNum \div 8
        pixelBlockBit == 7 - (pixelNum - 8 * pixelBlockNum)
        dstBlock == Rd(ram, kDisplayStart + pixelBlockNum)
        srcBit == Bit(Rd(ram, srcBase + srcY), 7 - srcX)
        dstBit == Bit(dstBlock, pixelBlockBit)
        flipped == Xor8(dstBlock, srcBit * (2 ^ pixelBlockBit))
    IN  IF dispX >= kDisplayWidth \/ dispY >= kDisplayHeight THEN st
        ELSE <<Wr(ram, kDisplayStart + pixelBlockNum, flipped),
               st[2] \/ (srcBit = 1 /\ dstBit = 1)>>

\* The body of the inner loop of Handle_D for source pixel (srcX, srcY), on
\* st = <<RAM, flippedOff>>.  The source byte is read through srcData for
\* every pixel, from the memory the earlier pixels have already changed.
BlitPixel(st, srcBase, baseX, baseY, srcY, srcX) ==
    LET ram == st[1]
        dispX == (srcX + baseX) % kDisplayWidth
        dispY == (srcY + baseY) % kDisplayHeight
        pixelNum == dispY * kDisplayWidth + dispX
        pixelBlockNum == pixelNum \div 8
        pixelBlockBit == 7 - (pixelNum - 8 * pixelBlockNum)
        dstBlock == Rd(ram, kDisplayStart + pixelBlockNum)
        srcBit == Bit(Rd(ram, srcBase + srcY), 7 - srcX)
        dstBit == Bit(dstBlock, pixelBlockBit)
        flipped == FlipPixel(dstBlock, srcBit, pixelBlockBit)
    IN  <<Wr(ram, kDisplayStart + pixelBlockNum, flipped),
          st[2] \/ (srcBit = 1 /\ dstBit = 1)>>

\* the inner loop from column srcX on; like the handlers it gives a set of outcomes
RECURSIVE BlitRow(_, _, _, _, _, _)
BlitRow(st, srcBase, baseX, baseY, srcY, srcX) ==
    IF srcX >= 8 THEN {st}
    ELSE UNION {BlitRow(t, srcBase, baseX, baseY, srcY, srcX + 1) :
                  t \in {BlitPixel(st, srcBase, baseX, baseY, srcY, srcX)}}

\* the outer loop from row srcY on
RECURSIVE BlitFrom(_, _, _, _, _, _)
BlitFrom(st, srcBase, baseX, baseY, n, srcY) ==
    IF srcY >= n THEN {st}
    ELSE UNION {BlitFrom(t, srcBase, baseX, baseY, n, srcY + 1) :
                  t \in BlitRow(st, srcBase, baseX, baseY, srcY, 0)}

\* mRAM indices the blit loop reads and writes
BlitTouched(srcBase, baseX, baseY, n) ==
    {srcBase + srcY : srcY \in 0..(n - 1)}
    \cup {kDisplayStart
          + ((((srcY + baseY) % kDisplayHeight) * kDisplayWidth
              + ((srcX + baseX) % kDisplayWidth)) \div 8) :
          srcY \in 0..(n - 1), srcX \in 0..7}

Handle_D(m, ins) ==
    LET vx == (ins \div 256) % 16
        vy == (ins \div 16) % 16
        n == ins % 16
        baseX == m.Registers[vx]
        baseY == m.Registers[vy]
    IN  IF m.I + n >= RAMSize
        THEN {OnError(m, "Blitting from outside of RAM")}
        ELSE {Out([m EXCEPT !.RAM = res[1],
                            !.Registers[15] = IF res[2] THEN 1 ELSE 0], "",
                  BlitTouched(m.I, baseX, baseY, n)) :
                res \in BlitFrom(<<m.RAM, FALSE>>, m.I, baseX, baseY, n, 0)}

Handle_E(m, ins) ==
    LET reg == (ins \div 256) % 16
        op == ins % 256
        val == m.Registers[reg]
        skip == Out([m EXCEPT !.PC = (m.PC + InsSize) % 65536], "", {})
    IN  IF op = \h9E
        THEN IF val >= NumKeys THEN {OnError(m, "Invalid key code requested")}
             ELSE IF val \in m.Keyboard THEN {skip} ELSE {Out(m, "", {})}
        ELSE IF op = \hA1
        THEN IF val >= NumKeys THEN {OnError(m, "Invalid key code requested")}
             ELSE IF val \notin m.Keyboard THEN {skip} ELSE {Out(m, "", {})}
        ELSE {Unhandled(m, ins)}

StoreBCD_TensNotReduced(m, val) ==
    IF m.I + 3 > RAMSize
    THEN {OnError(m, "Storing to I outside of RAM")}
    ELSE LET r0 == Wr(m.RAM, m.I, (val \div 100) % 10)
             r1 == Wr(r0, m.I + 1, val \div 10)
             r2 == Wr(r1, m.I + 2, val % 10)
         IN  {Out([m EXCEPT !.RAM = r2], "", m.I .. (m.I + 2))}

\* case 0x33 of Handle_F
StoreBCD(m, val) ==
    IF m.I + 3 > RAMSize
    THEN {OnError(m, "Storing to I outside of RAM")}
    ELSE LET r0 == Wr(m.RAM, m.I, (val \div 100) % 10)
             r1 == Wr(r0, m.I + 1, (val \div 10) % 10)
             r2 == Wr(r1, m.I + 2, val % 10)
         IN  {Out([m EXCEPT !.RAM = r2], "", m.I .. (m.I + 2))}

\* case 0x55 of Handle_F.  memcpy writes mRAM[mI .. mI+reg]; an index past the
\* end of mRAM is outside the array: the byte lands in the member that follows
\* mRAM in the object (mDisplayBuffer) or is lost.
StoreRegisters(m, reg) ==
    IF m.I + reg > RAMSize
    THEN {OnError(m, "Copying to I outside of RAM")}
    ELSE LET inside == {k \in 0..reg : m.I + k < RAMSize}
             outside == {k \in 0..reg : m.I + k >= RAMSize}
             ram == [a \in (DOMAIN m.RAM \ {m.I + k : k \in inside})
                           \cup {m.I + k : k \in {j \in inside : m.Registers[j] # 0}} |->
                       IF a >= m.I /\ a <= m.I + reg THEN m.Registers[a - m.I]
                       ELSE m.RAM[a]]
             spill == [a \in (DOMAIN m.DisplayBuffer \ {m.I + k - RAMSize : k \in outside})
                             \cup {m.I + k - RAMSize :
                                     k \in {j \in outside : m.Registers[j] # 0}} |->
                         IF a + RAMSize >= m.I /\ a + RAMSize <= m.I + reg
                         THEN m.Registers[a + RAMSize - m.I]
                         ELSE m.DisplayBuffer[a]]
             stored == [m EXCEPT !.RAM = ram]
         IN  IF outside = {}
             THEN {Out(stored, "", m.I .. (m.I + reg))}
             ELSE {Out([stored EXCEPT !.DisplayBuffer = spill], "", m.I .. (m.I + reg)),
                   Out(stored, "", m.I .. (m.I + reg))}

\* case 0x65 of Handle_F.  A byte read past the end of mRAM is the neighbouring
\* member's byte or anything else.
LoadRegisters(m, reg) ==
    IF m.I + reg > RAMSize
    THEN {OnError(m, "Copying from I outside of RAM")}
    ELSE LET outside == {k \in 0..reg : m.I + k >= RAMSize}
             Loaded(junk) ==
                 [m EXCEPT !.Registers =
                     [k \in 0..(NumRegisters - 1) |->
                        IF k > reg THEN m.Registers[k]
                        ELSE IF m.I + k < RAMSize THEN Rd(m.RAM, m.I + k)
                        ELSE junk[k]]]
         IN  {Out(Loaded(junk), "", m.I .. (m.I + reg)) :
                junk \in [outside ->
                            UndefBytes \cup {Rd(m.DisplayBuffer, m.I + k - RAMSize) :
                                               k \in outside}]}

Handle_F(m, ins) ==
    LET reg == (ins \div 256) % 16
        op == ins % 256
        val == m.Registers[reg]
    IN  CASE op = \h07 -> {Out([m EXCEPT !.Registers[reg] = m.DelayTimer], "", {})}
          [] op = \h0A -> {Out([m EXCEPT !.KeyboardRegister = reg], "", {})}
          [] op = \h15 -> {Out([m EXCEPT !.DelayTimer = val], "", {})}
          [] op = \h18 -> {Out([m EXCEPT !.SoundTimer = val], "", {})}
          [] op = \h1E -> IF m.I + val > RAMSize
                          THEN {OnError(m, "Moving I to outside of RAM")}
                          ELSE {Out([m EXCEPT !.I = (m.I + val) % 65536], "", {})}
          [] op = \h29 -> IF val >= 16
                          THEN {OnError(m, "Unknown key")}
                          ELSE {Out([m EXCEPT !.I = kCharacterSpritesStart + val * 5], "", {})}
          [] op = \h33 -> StoreBCD(m, val)
          [] op = \h55 -> StoreRegisters(m, reg)
          [] op = \h65 -> LoadRegisters(m, reg)
          [] OTHER -> {Unhandled(m, ins)}

-----------------------------------------------------------------------------
(* Fetch and Step *)

bswap(val) == ((val \div 256) % 256) + (((val * 256) % 65536) \div 256) * 256

\* ReadInstruction counting the delay timer down on every fetch
ReadInstruction_TicksDelay(m) ==
    IF m.PC + InsSize >= RAMSize
    THEN [fault |-> "Program counter left RAM", ins |-> -1, m |-> m, touched |-> {}]
    ELSE [fault |-> "",
          ins |-> bswap(Rd(m.RAM, m.PC) + 256 * Rd(m.RAM, m.PC + 1)),
          m |-> [m EXCEPT !.PC = (m.PC + InsSize) % 65536,
                          !.DelayTimer = IF @ > 0 THEN @ - 1 ELSE @],
          touched |-> {m.PC, m.PC + 1}]

\* CHIP8::ReadInstruction; memcpy into a uint16_t on a little-endian host
ReadInstruction(m) ==
    IF m.PC + InsSize >= RAMSize
    THEN [fault |-> "Program counter left RAM", ins |-> -1, m |-> m, touched |-> {}]
    ELSE [fault |-> "",
          ins |-> bswap(Rd(m.RAM, m.PC) + 256 * Rd(m.RAM, m.PC + 1)),
          m |-> [m EXCEPT !.PC = (m.PC + InsSize) % 65536],
          touched |-> {m.PC, m.PC + 1}]

\* the switch of CHIP8::Step
Dispatch(m, ins) ==
    CASE ins \div 4096 = 0 -> Handle_0(m, ins)
      [] ins \div 4096 = 1 -> Handle_1(m, ins)
      [] ins \div 4096 = 2 -> Handle_2(m, ins)
      [] ins \div 4096 = 3 -> Handle_3(m, ins)
      [] ins \div 4096 = 4 -> Handle_4(m, ins)
      [] ins \div 4096 = 5 -> Handle_5(m, ins)
      [] ins \div 4096 = 6 -> Handle_6(m, ins)
      [] ins \div 4096 = 7 -> Handle_7(m, ins)
      [] ins \div 4096 = 8 -> Handle_8(m, ins)
      [] ins \div 4096 = 9 -> Handle_9(m, ins)
      [] ins \div 4096 = 10 -> Handle_A(m, ins)
      [] ins \div 4096 = 11 -> Handle_B(m, ins)
      [] ins \div 4096 = 12 -> Handle_C(m, ins)
      [] ins \div 4096 = 13 -> Handle_D(m, ins)
      [] ins \div 4096 = 14 -> Handle_E(m, ins)
      [] ins \div 4096 = 15 -> Handle_F(m, ins)

\* FindButton with the target kept after a key is found
RECURSIVE FindButton_KeepsTarget(_, _, _)
FindButton_KeepsTarget(m, i, written) ==
    IF i >= NumKeys
    THEN <<[m EXCEPT !.KeyboardRegister = IF written = {} THEN @ ELSE NotWaiting], written>>
    ELSE IF i \in m.Keyboard
    THEN FindButton_KeepsTarget([m EXCEPT !.Registers[m.KeyboardRegister] = i],
                                i + 1, written \cup {m.KeyboardRegister})
    ELSE FindButton_KeepsTarget(m, i + 1, written)

\* The "Find the button that is pressed" loop of Step from key i on.  Gives
\* <<engine, register indices written>>.  An index outside 0..15 is outside
\* mRegisters and outside the engine object: the write does not reach the engine.
RECURSIVE FindButton(_, _, _)
FindButton(m, i, written) ==
    IF i >= NumKeys THEN <<m, written>>
    ELSE IF i \in m.Keyboard
    THEN LET target == m.KeyboardRegister
             regs == IF target < NumRegisters
                     THEN [m.Registers EXCEPT ![target] = i]
                     ELSE m.Registers
         IN  FindButton([m EXCEPT !.Registers = regs, !.KeyboardRegister = NotWaiting],
                        i + 1, written \cup {target})
    ELSE FindButton(m, i + 1, written)

\* the call sites of the frames on the stack after instruction ins, fetched at
\* pre.PC with pre.Stack frames on the stack, has had the outcome o
SitesAfter(sites, pre, ins, o) ==
    IF ins \div 4096 = 2 /\ o.fault = ""
    THEN IF pre.Stack \in DOMAIN sites THEN [sites EXCEPT ![pre.Stack] = pre.PC] ELSE sites
    ELSE sites

PeakAfter(peak, pre, ins, o) ==
    IF ins \div 4096 = 2 /\ o.fault = ""
    THEN IF pre.Stack = 0 \/ o.m.Stack > peak THEN o.m.Stack ELSE peak
    ELSE peak

\* the value written to mSoundTimer by instruction ins (FX18), with no Tick since
SoundAfter(snd, pre, ins, o) ==
    IF ins \div 4096 = 15 /\ ins % 256 = \h18 /\ o.fault = ""
    THEN [set |-> pre.Registers[(ins \div 256) % 16], ticks |-> 0]
    ELSE snd

\* what the key-wait part of an iteration started from
WaitInfo(m) ==
    [KeyboardRegister |-> m.KeyboardRegister, Keyboard |-> m.Keyboard,
     Registers |-> m.Registers, PC |-> m.PC]

NoWait == [KeyboardRegister |-> NotWaiting, Keyboard |-> {},
           Registers |-> Constructed.Registers, PC |-> 0]

\* StepIteration returning once a pending key wait is fulfilled
StepIteration_ResumeOnly(r) ==
    LET m == r.m
        waiting == m.KeyboardRegister # NotWaiting
    IN  IF waiting /\ m.Keyboard = {}
        THEN {[r EXCEPT !.brk = TRUE, !.wait = WaitInfo(m)]}
        ELSE IF waiting
        THEN LET found == FindButton(m, 0, {})
             IN  {[r EXCEPT !.m = found[1], !.pre = found[1], !.touched = {},
                            !.regw = found[2], !.wait = WaitInfo(m)]}
        ELSE LET f == ReadInstruction(m)
             IN  IF f.fault # ""
                 THEN {[r EXCEPT !.m = f.m, !.fault = f.fault, !.ins = -1,
                                 !.pre = m, !.touched = {},
                                 !.regw = {}, !.wait = WaitInfo(m)]}
                 ELSE {[m |-> o.m, fault |-> o.fault, brk |-> FALSE, ins |-> f.ins,
                        pre |-> m, touched |-> f.touched \cup o.touched,
                        regw |-> {}, wait |-> WaitInfo(m),
                        exec |-> r.exec + 1,
                        done |-> r.done \cup {f.ins},
                        snd |-> SoundAfter(r.snd, m, f.ins, o),
                        sites |-> SitesAfter(r.sites, m, f.ins, o),
                        peak |-> PeakAfter(r.peak, m, f.ins, o)] :
                         o \in Dispatch(f.m, f.ins)}

\* StepIteration without the break on an empty keyboard
StepIteration_NoBreak(r) ==
    LET m == r.m
        waiting == m.KeyboardRegister # NotWaiting
        found == IF waiting THEN FindButton(m, 0, {}) ELSE <<m, {}>>
        f == ReadInstruction(found[1])
    IN  IF f.fault # ""
        THEN {[r EXCEPT !.m = f.m, !.fault = f.fault, !.ins = -1,
                        !.pre = found[1], !.touched = {},
                        !.regw = found[2], !.wait = WaitInfo(m)]}
        ELSE {[m |-> o.m, fault |-> o.fault, brk |-> FALSE, ins |-> f.ins,
               pre |-> found[1], touched |-> f.touched \cup o.touched,
               regw |-> found[2], wait |-> WaitInfo(m),
               exec |-> r.exec + 1,
               done |-> r.done \cup {f.ins},
               snd |-> SoundAfter(r.snd, found[1], f.ins, o),
               sites |-> SitesAfter(r.sites, found[1], f.ins, o),
               peak |-> PeakAfter(r.peak, found[1], f.ins, o)] :
                o \in Dispatch(f.m, f.ins)}

\* one iteration of the loop of CHIP8::Step, continuing the run r
StepIteration(r) ==
    LET m == r.m
        waiting == m.KeyboardRegister # NotWaiting
    IN  IF waiting /\ m.Keyboard = {}
        THEN {[r EXCEPT !.brk = TRUE, !.wait = WaitInfo(m)]}
        ELSE LET found == IF waiting THEN FindButton(m, 0, {}) ELSE <<m, {}>>
                 f == ReadInstruction(found[1])
             IN  IF f.fault # ""
                 THEN {[r EXCEPT !.m = f.m, !.fault = f.fault, !.ins = -1,
                                 !.pre = found[1], !.touched = {},
                                 !.regw = found[2], !.wait = WaitInfo(m)]}
                 ELSE {[m |-> o.m, fault |-> o.fault, brk |-> FALSE, ins |-> f.ins,
                        pre |-> found[1], touched |-> f.touched \cup o.touched,
                        regw |-> found[2], wait |-> WaitInfo(m),
                        exec |-> r.exec + 1,
                        done |-> r.done \cup {f.ins},
                        snd |-> SoundAfter(r.snd, found[1], f.ins, o),
                        sites |-> SitesAfter(r.sites, found[1], f.ins, o),
                        peak |-> PeakAfter(r.peak, found[1], f.ins, o)] :
                         o \in Dispatch(f.m, f.ins)}

\* the loop of CHIP8::Step with n iterations to go
RECURSIVE StepLoop(_, _)
StepLoop(r, n) ==
    IF n = 0 \/ r.fault # "" \/ r.brk THEN {r}
    ELSE UNION {StepLoop(q, n - 1) : q \in StepIteration(r)}

NoPre == Constructed

-----------------------------------------------------------------------------
(* The calls the host makes *)

\* "const size_t offset = type == Program::CHIP8 ? 0x200 : 0x600" of Load
LoadOffset_AlwaysCHIP8(type) == OffsetCHIP8

LoadOffset(type) == IF type = "CHIP8" THEN OffsetCHIP8 ELSE OffsetETI660

\* "data.size() + offset < mRAM.size()" of Load
LoadFits_ExactFit(size, offset) == size + offset <= RAMSize

LoadFits(size, offset) == size + offset < RAMSize

\* CHIP8::Load(rom, type).  The engine accepts the call at any time, also
\* after an earlier Load and after steps; the host makes MaxLoads calls at most.
Load(type) ==
    /\ hLoads < MaxLoads
    /\ hLoads' = hLoads + 1
    /\ LET offset == LoadOffset(type)
           loaded == LoadFits(Len(rom), offset)
           copied == CopyIn(mRAM, offset, rom)
       IN  /\ IF loaded
              THEN /\ mRAM' = CopyIn(copied, kCharacterSpritesStart, kCharacterSprites)
                   /\ mPC' = offset
              ELSE UNCHANGED <<mRAM, mPC>>
           /\ hRet' = loaded
    /\ hOp' = <<"Load", type>>
    /\ hPre' = Cur
    /\ hFault' = "" /\ hIns' = -1 /\ hTouched' = {} /\ hRegWrites' = {} /\ hExec' = 0
    /\ hDone' = {} /\ hWait' = NoWait
    /\ UNCHANGED <<rom, mDisplayBuffer, mRegisters, mI, mDelayTimer, mSoundTimer,
                   mKeyboard, mKeyboardRegister, mStackFrames, mStack,
                   hSound, hDrawn, hCallSites, hPeak, hStepped, hFaults>>

\* ROM::Load(data, size): the image object takes the size bytes of data and
\* returns true; the engine is not touched
ROM_Load(data) ==
    /\ rom' = data
    /\ hRet' = TRUE
    /\ hOp' = <<"ROM::Load">>
    /\ hPre' = NoPre
    /\ hFault' = "" /\ hIns' = -1 /\ hTouched' = {} /\ hRegWrites' = {} /\ hExec' = 0
    /\ hDone' = {} /\ hWait' = NoWait
    /\ UNCHANGED <<mvars, hSound, hDrawn, hCallSites, hPeak, hStepped, hFaults, hLoads>>

\* CHIP8::Step(instructions)
Step(instructions) ==
    /\ hFaults < MaxFaults
    /\ \E r \in StepLoop([m |-> Cur, fault |-> "", brk |-> FALSE, ins |-> -1,
                          pre |-> NoPre, touched |-> {}, regw |-> {}, wait |-> NoWait,
                          exec |-> 0, done |-> {}, snd |-> hSound,
                          sites |-> hCallSites, peak |-> hPeak],
                         instructions) :
          /\ Commit(r.m)
          /\ hFault' = r.fault
          /\ hIns' = r.ins
          /\ hPre' = r.pre
          /\ hTouched' = r.touched
          /\ hRegWrites' = r.regw
          /\ hWait' = r.wait
          /\ hExec' = r.exec
          /\ hDone' = r.done
          /\ hSound' = r.snd
          /\ hCallSites' = r.sites
          /\ hPeak' = r.peak
          /\ hFaults' = IF r.fault # "" THEN hFaults + 1 ELSE hFaults
    /\ hOp' = <<"Step">>
    /\ hStepped' = TRUE
    /\ UNCHANGED <<rom, hRet, hDrawn, hLoads>>

Quiet ==
    /\ hFault' = "" /\ hIns' = -1 /\ hTouched' = {}
    /\ hRegWrites' = {} /\ hExec' = 0 /\ hDone' = {} /\ hWait' = NoWait
    /\ UNCHANGED <<rom, hRet, hCallSites, hPeak, hStepped, hFaults, hLoads>>

\* Tick without the tests for zero
Tick_Wraps ==
    /\ mDelayTimer' = (mDelayTimer - 1) % 256
    /\ mSoundTimer' = (mSoundTimer - 1) % 256
    /\ hOp' = <<"Tick">>
    /\ hPre' = Cur
    /\ hSound' = [hSound EXCEPT !.ticks = IF @ < hSound.set THEN @ + 1 ELSE @]
    /\ Quiet
    /\ UNCHANGED hDrawn
    /\ UNCHANGED <<mRAM, mDisplayBuffer, mRegisters, mPC, mI, mKeyboard,
                   mKeyboardRegister, mStackFrames, mStack>>

\* CHIP8::Tick
Tick ==
    /\ mDelayTimer' = IF mDelayTimer > 0 THEN mDelayTimer - 1 ELSE mDelayTimer
    /\ mSoundTimer' = IF mSoundTimer > 0 THEN mSoundTimer - 1 ELSE mSoundTimer
    /\ hOp' = <<"Tick">>
    /\ hPre' = Cur
    /\ hSound' = [hSound EXCEPT !.ticks = IF @ < hSound.set THEN @ + 1 ELSE @]
    /\ Quiet
    /\ UNCHANGED hDrawn
    /\ UNCHANGED <<mRAM, mDisplayBuffer, mRegisters, mPC, mI, mKeyboard,
                   mKeyboardRegister, mStackFrames, mStack>>

\* CHIP8::SetKeyboardState
SetKeyboardState(state) ==
    /\ mKeyboard' = state
    /\ hOp' = <<"SetKeyboardState">>
    /\ hPre' = NoPre
    /\ Quiet
    /\ UNCHANGED <<hSound, hDrawn>>
    /\ UNCHANGED <<mRAM, mDisplayBuffer, mRegisters, mPC, mI, mDelayTimer, mSoundTimer,
                   mKeyboardRegister, mStackFrames, mStack>>

\* CHIP8::NeedsRedraw: memcmp of mRAM[kDisplayStart ..] with mDisplayBuffer
NeedsRedraw == Slice(mRAM, kDisplayStart, kDisplaySize) # mDisplayBuffer

PlayingSound_AboveOne == mSoundTimer > 1

\* CHIP8::PlayingSound
PlayingSound == mSoundTimer > 0

\* CHIP8::Draw: the memcpy into mDisplayBuffer; the rest prints
Draw ==
    /\ mDisplayBuffer' = Slice(mRAM, kDisplayStart, kDisplaySize)
    /\ hOp' = <<"Draw">>
    /\ hPre' = NoPre
    /\ hDrawn' = Slice(mRAM, kDisplayStart, (kDisplayWidth * kDisplayHeight) \div 8)
    /\ Quiet
    /\ UNCHANGED hSound
    /\ UNCHANGED <<mRAM, mRegisters, mPC, mI, mDelayTimer, mSoundTimer, mKeyboard,
                   mKeyboardRegister, mStackFrames, mStack>>

-----------------------------------------------------------------------------
(* The program images the host loads *)

\* the bytes of a sequence of instructions, high byte first
Asm(words) ==
    [i \in 1..(2 * Len(words)) |->
        IF i % 2 = 1 THEN words[(i + 1) \div 2] \div 256 ELSE words[i \div 2] % 256]

RECURSIVE CallLevels(_, _, _)
CallLevels(base, k, d) ==
    IF k >= d THEN << \h00EE >>
    ELSE << \h2000 + base + 4 + 4 * k, \h00EE >> \o CallLevels(base, k + 1, d)

\* d nested calls and their returns, then a jump to itself at base + 2
CallRom(base, d) ==
    Asm(<< \h2000 + base + 4, \h1000 + base + 2 >> \o CallLevels(base, 1, d))

\* a subroutine that calls itself until the stack is full; the call that then
\* faults leaves PC at the return, and the returns unwind the whole stack
RecursionRom == Asm(<< \h2204, \h1202, \h2204, \h00EE >>)

\* calls nested as deep as the stack allows, and shallow ones at both offsets
CallRoms == {RecursionRom, CallRom(OffsetCHIP8, 2), CallRom(OffsetETI660, 2)}

\* a call of itself, which fills the stack, and a return on the empty stack
StackRoms == {Asm(<< \h2200 >>), Asm(<< \h00EE, \h1202 >>)}

\* register rx set to one of 0, 127, 128, 255: a random one of 0, 1, 128, 129
\* plus 127
RandomEdge(rx) == << \hC081 + 256 * rx, \h707F + 256 * rx >>

\* rx one of 0, 127, 128, 255 and ry 128, then one flag-writing instruction of
\* group 8, halt
AluRom(op, rx, ry) ==
    IF rx = ry
    THEN Asm(RandomEdge(rx) \o << \h8000 + 256 * rx + 16 * ry + op, \h1206 >>)
    ELSE Asm(RandomEdge(rx) \o << \h6080 + 256 * ry,
                                  \h8000 + 256 * rx + 16 * ry + op, \h1208 >>)

AddRoms == {AluRom(4, 0, 1), AluRom(4, 2, 2), AluRom(4, 14, 3)}

SubRoms == {AluRom(5, 0, 1), AluRom(7, 0, 1), AluRom(5, 2, 2), AluRom(7, 14, 3)}

ShiftRoms == {AluRom(6, 0, 1), AluRom(14, 0, 1), AluRom(6, 2, 2), AluRom(14, 14, 3)}

\* register rx, one of 0, 127, 128, 255, stored as decimal digits at address i
BcdRom(i, rx) ==
    Asm(RandomEdge(rx) \o << \hA000 + i, \hF033 + 256 * rx, \h1208 >>)

BcdRoms ==
    {BcdRom(i, 0) : i \in {\h300, \hFFD, \hFFE}}
    \cup {BcdRom(\h206, 4),
          Asm(<< \h6001, \hAFFF, \hF01E >> \o RandomEdge(1) \o << \hF133, \h120C >>)}

\* accesses at the end of memory
EdgeRoms ==
    {Asm(<< \h1FFE >>), Asm(<< \h1FFD >>), Asm(<< \h1FFC >>),
     Asm(<< \h6011, \h6122, \hAFFE, \hF155, \h6000, \h6100, \hF165, \h120E >>),
     Asm(<< \h6011, \h6122, \hAFFF, \hF155, \h6000, \h6100, \hF165, \h120E >>),
     Asm(<< \h6011, \h6001, \hAFFF, \hF01E, \hF055, \hF065, \h120C >>),
     Asm(<< \h6011, \hAFFF, \hF255, \hF265, \h1208 >>),
     Asm(<< \hAFFA, \hD005, \hD006, \h1206 >>),
     Asm(<< \hAFFF, \hD000, \hD001, \h1206 >>)}

\* glyph 1 at (0,0), then the n-row sprite at i drawn twice at (bx, by)
DrawRom(i, n, bx, by) ==
    Asm(<< \hA015, \hD235, \h6000 + bx, \h6100 + by, \hA000 + i,
           \hD010 + n, \hD010 + n, \h120E >>)

DrawRoms ==
    {DrawRom(\h010, 5, 63, 31),
     Asm(<< \hA010, \hD235, \hAF00, \hD231, \hD231, \h120A >>),
     Asm(<< \hA010, \hD235, \h6408, \hAF00, \hD431, \hD431, \h120C >>)}

\* an image of size bytes: a jump to its own first instruction, then filler
RECURSIVE Filler(_, _)
Filler(from, to) ==
    IF from > to THEN << >>
    ELSE IF from = to THEN << ((from * 7) % 255) + 1 >>
    ELSE LET mid == (from + to) \div 2
         IN  Filler(from, mid) \o Filler(mid + 1, to)

SizedRom(base, size) ==
    IF size = 0 THEN << >>
    ELSE IF size = 1 THEN << \h10 + base \div 256 >>
    ELSE << \h10 + base \div 256, base % 256 >> \o Filler(3, size)

SizedRoms ==
    {SizedRom(OffsetCHIP8, size) : size \in {0, 1, 2559, 2560, 3583, 3584, 3585}}
    \cup {SizedRom(OffsetETI660, 2559)}

\* set register 0, point I after the image, draw five rows
ScenarioRom == << \h60, \h0A, \hA2, \h10, \hD0, \h05 >>

\* wait for a key into register rx, add one to it, wait again
KeyRom(rx) == Asm(<< \hF00A + 256 * rx, \h7001 + 256 * rx, \h1200 >>)

\* a key wait into register 0 stored at 0xFFC, the last instruction that can be
\* fetched, and run
KeyRomAtEnd == Asm(<< \h60F0, \h610A, \hAFFC, \hF155, \h1FFC >>)

KeyRoms == {KeyRom(3), KeyRom(15), KeyRomAtEnd}

\* sound timer 3, delay timer 2, then the delay timer read and a fault
TimerRom ==
    Asm(<< \h6103, \hF118, \h6202, \hF215, \hF007, \h8F14, \h120A >>)

\* the sound timer set a second time, and the delay timer from the sound value
TimerRomAgain ==
    Asm(<< \h6103, \hF118, \hF115, \h6101, \hF118, \h120A >>)

\* both timers set, then a wait for a key that the host never reports
TimerRomWait == Asm(<< \h6103, \hF118, \hF115, \hF00A, \h1208 >>)

TimerRoms == {TimerRom, TimerRomAgain, TimerRomWait}

\* glyph 0 drawn at (bx, by), then the display cleared
ClearRom(bx, by) ==
    Asm(<< \hA010, \h6000 + bx, \h6100 + by, \hD015, \h00E0, \h120A >>)

ClearRoms == {ClearRom(0, 0), ClearRom(56, 27)}

\* jumps that leave PC at the last addresses of memory and past them
FetchRoms ==
    {Asm(<< \h1FFC >>), Asm(<< \h1FFD >>), Asm(<< \h1FFE >>), Asm(<< \h1FFF >>),
     Asm(<< \h60FF, \hBF01 >>),
     Asm(<< \h6012, \h6134, \hAFFD, \hF155, \h1FFD >>)}

\* the 16-bit words that are no instruction of the machine
NoInstruction(ins) ==
    LET group == ins \div 4096
        n == ins % 16
        nn == ins % 256
    IN  \/ group = 0 /\ ins \notin {\h00E0, \h00EE}
        \/ group \in {5, 9} /\ n # 0
        \/ group = 8 /\ n \in {8, 9, 10, 11, 12, 13, 15}
        \/ group = 14 /\ nn \notin {\h9E, \hA1}
        \/ group = 15 /\ nn \notin {\h07, \h0A, \h15, \h18, \h1E, \h29, \h33, \h55, \h65}

\* one image for each of them: that word alone
DecodeRoms == {Asm(<< ins >>) : ins \in {w \in 0..65535 : NoInstruction(w)}}

\* sprites drawn over each other across both edges; one row drawn into the
\* last byte of the pixels only; a two-row sprite read from the frame buffer
\* while it is drawn over its own second row; a sprite drawn at the
\* coordinates held in the flag register
SpriteRoms ==
    {Asm(<< \hA010, \h603E, \h611E, \hD015, \hA015, \hD015, \h120C >>),
     Asm(<< \hA010, \h6038, \h611F, \hD011, \hD011, \h120A >>),
     Asm(<< \hA010, \hD235, \h6408, \hAF00, \hD432, \h120A >>),
     Asm(<< \hA010, \hD235, \h6F02, \hDFF5, \h1208 >>)}

\* a flag-writing instruction of group 8 on registers rx and ry, then halt
OrderRom(op, rx, ry) ==
    Asm(<< \h6081 + 256 * rx, \h6007 + 256 * ry,
           \h8000 + 256 * rx + 16 * ry + op, \h1206 >>)

OrderRoms ==
    {OrderRom(op, rxy[1], rxy[2]) :
        op \in {4, 5, 6, 7, 14}, rxy \in {<<15, 1>>, <<1, 15>>, <<15, 15>>, <<1, 2>>}}

\* block store and load at and around the end of memory
BlockRom(i, r) ==
    Asm(<< \h6011, \h6122, \h6233, \h6344, \hA000 + i, \hF055 + 256 * r,
           \h6001, \h6102, \h6203, \hF065 + 256 * r, \h1214 >>)

BlockRoms ==
    {BlockRom(\h300, 0), BlockRom(\h300, 2), BlockRom(\hFFD, 2), BlockRom(\hFFE, 2),
     BlockRom(\hFFF, 0), BlockRom(\hFFF, 1), BlockRom(\hFFF, 2)}

\* I moved by a register to the last address, to 4096 and past it
AddIRoms ==
    {Asm(<< \h6000 + v, \hAFF0, \hF01E, \hF01E, \h1208 >>) : v \in {7, 8, 15, 16, 17}}

\* the skip instructions are stored at 0xFFC, the last place they can be
\* fetched from
SkipAtEnd(hi, lo) ==
    Asm(<< \h6000 + hi, \h6100 + lo, \hAFFC, \hF155, \h6200, \h6301, \h1FFC >>)

\* the registers set, I at the last address, then a block store and a block
\* load of three registers, both past the end of memory
BlockPastEnd ==
    Asm(<< \h6011, \h6122, \h6233, \hAFFF, \hF255, \hF265, \h120C >>)

\* I at the last address moved by 255
AddIPastEnd == Asm(<< \h60FF, \h6F01, \hAFFF, \hF01E, \h1208 >>)

\* images whose instructions fault, for each fault a handler raises: call on
\* the full stack, return on the empty stack, the skips, the sprite source,
\* the key codes, the glyph of a key that does not exist, the decimal digits,
\* the indexed jump, the undefined word, the flag register as an operand of
\* each flag-writing instruction, I moved past the end, the block copies
FaultRoms ==
    {Asm(<< \h2200 >>),
     Asm(<< \h6005, \h00EE, \h1204 >>),
     SkipAtEnd(\h32, \h00), SkipAtEnd(\h42, \h01), SkipAtEnd(\h52, \h20),
     SkipAtEnd(\h92, \h30), SkipAtEnd(\hE2, \hA1),
     Asm(<< \h6005, \hAFFA, \hD006, \h1206 >>),
     Asm(<< \h6010, \hE09E, \hE0A1, \h1206 >>),
     Asm(<< \h6010, \hA123, \hF029, \h1206 >>),
     Asm(<< \h60FF, \hAFFE, \hF033, \h1206 >>),
     Asm(<< \h60FF, \hBF02, \h1204 >>),
     Asm(<< \h6005, \h8009, \hF0FF >>),
     BlockPastEnd, AddIPastEnd}
    \cup {OrderRom(op, rxy[1], rxy[2]) :
             op \in {4, 5, 6, 7, 14}, rxy \in {<<15, 1>>, <<1, 15>>}}

\* the image the host reads into its ROM object after the first one: a jump
\* to itself
Images == {Asm(<< \h1200 >>)}

\* the images of the host that makes every call
Roms == {ScenarioRom, KeyRom(3)}

-----------------------------------------------------------------------------
(* The system *)

\* the engine as the host has constructed it, before any call on it
Booted ==
    /\ mRAM = Constructed.RAM
    /\ mDisplayBuffer = Constructed.DisplayBuffer
    /\ mRegisters = Constructed.Registers
    /\ mPC = Constructed.PC
    /\ mI = Constructed.I
    /\ mDelayTimer = Constructed.DelayTimer
    /\ mSoundTimer = Constructed.SoundTimer
    /\ mKeyboard = Constructed.Keyboard
    /\ mKeyboardRegister = Constructed.KeyboardRegister
    /\ mStackFrames = Constructed.StackFrames
    /\ mStack = Constructed.Stack
    /\ hOp = <<"CHIP8">>
    /\ hRet = FALSE
    /\ hFault = "" /\ hIns = -1 /\ hPre = NoPre /\ hTouched = {}
    /\ hRegWrites = {} /\ hExec = 0 /\ hDone = {} /\ hWait = NoWait
    /\ hSound = [set |-> 0, ticks |-> 0]
    /\ hDrawn = Zeroed
    /\ hCallSites = [k \in 0..(StackSize - 1) |-> 0]
    /\ hPeak = 0
    /\ hStepped = FALSE
    /\ hFaults = 0
    /\ hLoads = 0

\* the host has read an image into its ROM object and constructed the engine
Init == rom \in Roms /\ Booted

\* a host that makes every call of the public interface, in any order
Next ==
    \/ \E data \in Images : ROM_Load(data)
    \/ \E type \in Program : Load(type)
    \/ \E instructions \in 0..MaxBatch : Step(instructions)
    \/ Tick
    \/ \E state \in KeyStates : SetKeyboardState(state)
    \/ Draw

Spec == Init /\ [][Next]_vars

\* the host of src/unnamed/part_002, which never reports the keyboard: it
\* loads, steps, ticks the timers and draws the frame
NextRun ==
    \/ \E data \in Images : ROM_Load(data)
    \/ \E type \in Program : Load(type)
    \/ \E instructions \in 0..MaxBatch : Step(instructions)
    \/ Tick
    \/ Draw

\* the host running the images with nested calls and returns
InitCall == rom \in CallRoms /\ Booted

SpecCall == InitCall /\ [][NextRun]_vars

\* the host running the images with calls on the full and returns on the empty stack
InitStack == rom \in StackRoms /\ Booted

SpecStack == InitStack /\ [][NextRun]_vars

\* the host running the images with accesses at the end of memory
InitEdge == rom \in EdgeRoms /\ Booted

SpecEdge == InitEdge /\ [][NextRun]_vars

\* the host running the images around the sizes that fit
InitSized == rom \in SizedRoms /\ Booted

SpecSized == InitSized /\ [][NextRun]_vars

\* the host running the images with additions
InitAdd == rom \in AddRoms /\ Booted

SpecAdd == InitAdd /\ [][NextRun]_vars

\* the host running the images with subtractions
InitSub == rom \in SubRoms /\ Booted

SpecSub == InitSub /\ [][NextRun]_vars

\* the host running the images with shifts
InitShift == rom \in ShiftRoms /\ Booted

SpecShift == InitShift /\ [][NextRun]_vars

\* the host running the images with decimal stores
InitBcd == rom \in BcdRoms /\ Booted

SpecBcd == InitBcd /\ [][NextRun]_vars

\* the host running the images with sprites drawn twice
InitDraw == rom \in DrawRoms /\ Booted

SpecDraw == InitDraw /\ [][NextRun]_vars

\* the host running the images with key waits
InitKey == rom \in KeyRoms /\ Booted

SpecKey == InitKey /\ [][Next]_vars

\* the host running the images with timers
InitTimer == rom \in TimerRoms /\ Booted

SpecTimer == InitTimer /\ [][NextRun]_vars

\* the host running the images with display clears
InitClear == rom \in ClearRoms /\ Booted

SpecClear == InitClear /\ [][NextRun]_vars

\* the host running the images with fetches at the end of memory
InitFetch == rom \in FetchRoms /\ Booted

SpecFetch == InitFetch /\ [][NextRun]_vars

\* the host running the images with sprites across the edges
InitSprite == rom \in SpriteRoms /\ Booted

SpecSprite == InitSprite /\ [][NextRun]_vars

\* the host running the images with flag-register operands
InitOrder == rom \in OrderRoms /\ Booted

SpecOrder == InitOrder /\ [][NextRun]_vars

\* the host running the images with block stores and loads
InitBlock == rom \in BlockRoms /\ Booted

SpecBlock == InitBlock /\ [][NextRun]_vars

\* the host running the images with additions to I
InitAddI == rom \in AddIRoms /\ Booted

SpecAddI == InitAddI /\ [][NextRun]_vars

\* the host running the images with faulting instructions
InitFault == rom \in FaultRoms /\ Booted

SpecFault == InitFault /\ [][NextRun]_vars

\* the host loading a one-word image and stepping it, one instruction a call
InitDecode == rom \in DecodeRoms /\ Booted

NextDecode ==
    \/ Load("CHIP8")
    \/ Step(1)

SpecDecode == InitDecode /\ [][NextDecode]_vars

-----------------------------------------------------------------------------
(* Properties *)

\* the last call was a Step whose last iteration fetched an instruction
Stepped == hOp = <<"Step">> /\ hIns >= 0

InsGroup == hIns \div 4096
InsX == (hIns \div 256) % 16
InsY == (hIns \div 16) % 16
InsN == hIns % 16
InsNN == hIns % 256

IsCall == Stepped /\ InsGroup = 2
IsReturn == Stepped /\ hIns = \h00EE
IsAlu(op) == Stepped /\ InsGroup = 8 /\ InsN = op
IsDraw == Stepped /\ InsGroup = 13
IsBCD == Stepped /\ InsGroup = 15 /\ InsNN = \h33

\* the 256 bytes that hold the 64 x 32 pixels
Pixels(ram) == Slice(ram, kDisplayStart, (kDisplayWidth * kDisplayHeight) \div 8)

\* C1: a return that does not fault leaves PC at the address of its matching
\* call plus 2, whatever the depth (so d calls followed by d returns end right
\* after the outermost call), and a call made with 24 frames on the stack faults.
CallReturnRoundTrip ==
    /\ (IsReturn /\ hFault = "") =>
          /\ mStack = hPre.Stack - 1
          /\ mPC = hCallSites[mStack] + 2
    /\ (IsCall /\ hPre.Stack < StackSize) =>
          /\ hFault = ""
          /\ mStack = hPre.Stack + 1
          /\ mPC = hIns % 4096
    /\ (IsCall /\ hPre.Stack = StackSize) => hFault = "Out of stack frames"

\* 24 nested calls have been made and the last of their 24 returns has just
\* been executed
RoundTripDepth24 ==
    /\ IsReturn /\ hFault = ""
    /\ hPeak = StackSize
    /\ mStack = 0
    /\ mPC = hCallSites[0] + 2

\* C2: the stack height is always in 0..24; a call at height 24 and a return at
\* height 0 fault and leave the height as it was.
StackHeightInRange ==
    /\ mStack \in 0..StackSize
    /\ (IsCall /\ hPre.Stack = StackSize) =>
          hFault = "Out of stack frames" /\ mStack = StackSize
    /\ (IsReturn /\ hPre.Stack = 0) =>
          hFault = "Out of stack frames" /\ mStack = 0

\* a call has just faulted on the full stack
CallOnFullStack ==
    IsCall /\ hPre.Stack = StackSize /\ hFault # "" /\ mStack = StackSize

\* C3: every mRAM index an instruction reads or writes is below 4096.
AccessesInsideMemory ==
    Stepped => \A a \in hTouched : a >= 0 /\ a < RAMSize

\* C4: Load fails whenever size + offset >= 4096, and a failed Load leaves PC
\* and every byte of memory as they were.
LoadTooLargeFails ==
    hOp[1] = "Load" =>
        LET off == IF hOp[2] = "CHIP8" THEN 512 ELSE 1536
        IN  /\ (Len(rom) + off >= 4096) => ~hRet
            /\ ~hRet => (mRAM = hPre.RAM /\ mPC = hPre.PC)

\* Load has just refused an image that ends exactly one byte past memory
LoadRefusedExactFit ==
    /\ hOp = <<"Load", "CHIP8">>
    /\ Len(rom) + 512 = 4096
    /\ ~hRet
    /\ mPC = 0 /\ mRAM = Zeroed

\* C5: after a successful Load the image is at the offset of its type, PC is
\* that offset, and glyph d is at 0x10 + 5 d.
LoadPlacesImage ==
    (hOp[1] = "Load" /\ hRet) =>
        LET off == IF hOp[2] = "CHIP8" THEN 512 ELSE 1536
        IN  /\ \A i \in 0..(Len(rom) - 1) : Rd(mRAM, off + i) = rom[i + 1]
            /\ mPC = off
            /\ \A d \in 0..15 : \A j \in 0..4 :
                  Rd(mRAM, 16 + 5 * d + j) = kCharacterSprites[5 * d + j + 1]
            /\ <<Rd(mRAM, 21), Rd(mRAM, 22), Rd(mRAM, 23), Rd(mRAM, 24), Rd(mRAM, 25)>>
                  = <<96, 160, 32, 32, 240>>

\* the largest image that fits has been loaded as the alternate type
LoadedLargestETI660 ==
    /\ hOp = <<"Load", "ETI660">>
    /\ hRet
    /\ Len(rom) = 2559
    /\ mPC = 1536
    /\ Rd(mRAM, 1536 + 2558) = rom[2559]

\* C6: 8XY4 with X, Y # 0xF leaves VX = (a + b) mod 256 and VF = 1 if
\* a + b > 255, else 0.
AddWithCarry ==
    (IsAlu(4) /\ InsX # 15 /\ InsY # 15) =>
        LET a == hPre.Registers[InsX]
            b == hPre.Registers[InsY]
        IN  /\ hFault = ""
            /\ mRegisters[InsX] = (a + b) % 256
            /\ mRegisters[15] = IF a + b > 255 THEN 1 ELSE 0

\* 127 + 128 has been added: the largest sum without a carry
AddedWithoutCarryAt255 ==
    /\ IsAlu(4) /\ hIns = \h8014
    /\ hPre.Registers[0] = 127 /\ hPre.Registers[1] = 128
    /\ mRegisters[0] = 255 /\ mRegisters[15] = 0

\* C7: 8XY5 leaves VX = (a - b) mod 256 and VF = 1 iff a >= b; 8XY7 leaves
\* VX = (b - a) mod 256 and VF = 1 iff b >= a; X, Y # 0xF.
SubtractNoBorrowFlag ==
    /\ (IsAlu(5) /\ InsX # 15 /\ InsY # 15) =>
          LET a == hPre.Registers[InsX]
              b == hPre.Registers[InsY]
          IN  /\ hFault = ""
              /\ mRegisters[InsX] = (a - b) % 256
              /\ mRegisters[15] = IF a >= b THEN 1 ELSE 0
    /\ (IsAlu(7) /\ InsX # 15 /\ InsY # 15) =>
          LET a == hPre.Registers[InsX]
              b == hPre.Registers[InsY]
          IN  /\ hFault = ""
              /\ mRegisters[InsX] = (b - a) % 256
              /\ mRegisters[15] = IF b >= a THEN 1 ELSE 0

\* equal operands have been subtracted: no borrow
SubtractedEqual ==
    /\ IsAlu(5) /\ hIns = \h8015
    /\ hPre.Registers[0] = 128 /\ hPre.Registers[1] = 128
    /\ mRegisters[0] = 0 /\ mRegisters[15] = 1

\* C8: 8XYE leaves VF = bit 7 of VX and VX = (VX << 1) mod 256; 8XY6 leaves
\* VF = bit 0 of VX and VX = VX >> 1; X, Y # 0xF.
ShiftFlags ==
    /\ (IsAlu(14) /\ InsX # 15 /\ InsY # 15) =>
          LET a == hPre.Registers[InsX]
          IN  /\ hFault = ""
              /\ mRegisters[15] = IF a >= 128 THEN 1 ELSE 0
              /\ mRegisters[InsX] = (2 * a) % 256
    /\ (IsAlu(6) /\ InsX # 15 /\ InsY # 15) =>
          LET a == hPre.Registers[InsX]
          IN  /\ hFault = ""
              /\ mRegisters[15] = a % 2
              /\ mRegisters[InsX] = a \div 2

\* 128 has been shifted left: bit 7 set, bit 0 clear
ShiftedLeft128 ==
    /\ IsAlu(14) /\ hIns = \h801E
    /\ hPre.Registers[0] = 128
    /\ mRegisters[0] = 0 /\ mRegisters[15] = 1

\* the step about to be taken executes, alone, the draw instruction that the
\* step just taken executed, with the same I and coordinates
DrawsAgain ==
    /\ IsDraw /\ hFault = "" /\ hExec = 1
    /\ hOp' = <<"Step">> /\ hExec' = 1 /\ hIns' = hIns /\ hFault' = ""
    /\ hPre' = Cur
    /\ mI = hPre.I
    /\ mRegisters[InsX] = hPre.Registers[InsX]
    /\ mRegisters[InsY] = hPre.Registers[InsY]

\* C9 as stated: the second of two identical draws leaves every pixel as it
\* was before the first, for every I.
DrawTwiceRestores ==
    [][DrawsAgain => Pixels(mRAM') = Pixels(hPre.RAM)]_vars

\* C9 amended: the same, when the first draw has left its own sprite rows
\* mRAM[I .. I+N-1] as they were.
DrawTwiceRestoresSameSprite ==
    [][(DrawsAgain /\ Slice(mRAM, mI, InsN) = Slice(hPre.RAM, mI, InsN)) =>
          Pixels(mRAM') = Pixels(hPre.RAM)]_vars

\* the 5-row glyph has been drawn twice at (63, 31), wrapping in both
\* directions, over the glyph drawn before at (0, 0)
DrewTwiceAtCorner ==
    /\ IsDraw /\ hFault = "" /\ hIns = \hD015
    /\ rom = DrawRom(16, 5, 63, 31)
    /\ hPre.PC = 512 + 12
    /\ mRegisters[0] = 63 /\ mRegisters[1] = 31
    /\ mI = 16
    /\ Pixels(mRAM) # Pixels(hPre.RAM)
    /\ Pixels(mRAM) # Zeroed

\* C10: FX33 with I + 2 inside memory writes the three decimal digits of VX
\* to I, I+1, I+2 and changes no other byte, no register and not I; otherwise
\* it faults.
BCDStore ==
    IsBCD =>
        LET v == hPre.Registers[InsX]
            i == hPre.I
        IN  IF i + 2 < 4096
            THEN /\ hFault = ""
                 /\ Rd(mRAM, i) = v \div 100
                 /\ Rd(mRAM, i + 1) = (v \div 10) % 10
                 /\ Rd(mRAM, i + 2) = v % 10
                 /\ \A a \in (DOMAIN mRAM \cup DOMAIN hPre.RAM) \ {i, i + 1, i + 2} :
                       Rd(mRAM, a) = Rd(hPre.RAM, a)
                 /\ mRegisters = hPre.Registers
                 /\ mI = i
            ELSE hFault # ""

\* 255 has been stored at the last three bytes of memory
BCDStored255AtEnd ==
    /\ IsBCD /\ hFault = ""
    /\ hPre.Registers[InsX] = 255
    /\ hPre.I = 4093
    /\ <<Rd(mRAM, 4093), Rd(mRAM, 4094), Rd(mRAM, 4095)>> = <<2, 5, 5>>

\* the three instructions of ScenarioRom, loaded at 0x200, have been executed
ScenarioRun ==
    /\ rom = ScenarioRom /\ Stepped /\ hIns = \hD005 /\ hFault = ""
    /\ hPre.PC = OffsetCHIP8 + 4 /\ mPC = OffsetCHIP8 + 6 /\ hFaults = 0
    /\ hLoads = 1

\* pixel (px, py) of the frame buffer in ram
PixelAt(ram, px, py) ==
    Bit(Rd(ram, kDisplayStart + ((py * kDisplayWidth + px) \div 8)), 7 - (px % 8))

\* the frame buffer in ram shows the glyph of digit with its corner at (bx, by)
\* and nothing else
ShowsGlyph(ram, digit, bx, by) ==
    \A px \in 0..(kDisplayWidth - 1), py \in 0..(kDisplayHeight - 1) :
        PixelAt(ram, px, py) =
            IF px \in bx..(bx + 7) /\ py \in by..(by + 4)
            THEN Bit(kCharacterSprites[5 * digit + (py - by) + 1], 7 - (px - bx))
            ELSE 0

\* C11 as stated: after loading ScenarioRom as CHIP8 and three steps, register 0
\* is 0x0A, I is 0x0210 and the frame buffer shows the glyph of digit 0 where
\* the draw instruction put it, at (V0, V0).
ScenarioShowsGlyph ==
    ScenarioRun =>
        /\ mRegisters[0] = \h0A
        /\ mI = \h0210
        /\ ShowsGlyph(mRAM, 0, mRegisters[0], mRegisters[0])

\* C11 amended: after loading ScenarioRom as CHIP8 and three steps, register 0
\* is 0x0A, I is 0x0210, and no pixel of the frame buffer is set: the five rows
\* the draw reads at 0x0210 are zero, the glyphs being at 0x0010.
ScenarioLeavesFrameBlank ==
    ScenarioRun =>
        /\ mRegisters[0] = \h0A
        /\ mI = \h0210
        /\ Slice(hPre.RAM, mI, 5) = Zeroed
        /\ Pixels(mRAM) = Zeroed
        /\ mRegisters[15] = 0

ScenarioRanThreeSteps ==
    /\ ScenarioRun
    /\ mRegisters[0] = \h0A /\ mI = \h0210
    /\ Slice(mRAM, OffsetCHIP8, 6) = [a \in 0..5 |-> rom[a + 1]]
    /\ Slice(mRAM, kCharacterSpritesStart, 5) = [a \in 0..4 |-> kCharacterSprites[a + 1]]

\* the engine is waiting for a key and the keyboard snapshot has none
Suspended == mKeyboardRegister # NotWaiting /\ mKeyboard = {}

\* C12: a Step called while the engine waits for a key and no key is pressed
\* fetches and executes nothing and leaves the whole engine (PC, registers, I,
\* memory, stack, timers, the pending wait) as it was.
StepWhileSuspended ==
    [][(Suspended /\ hOp' = <<"Step">>) =>
          /\ UNCHANGED mvars
          /\ hExec' = 0 /\ hIns' = -1 /\ hFault' = ""]_vars

\* a Step has just found the engine waiting with no key pressed
SteppedWhileSuspended ==
    /\ hOp = <<"Step">> /\ hExec = 0
    /\ hWait.KeyboardRegister = 3 /\ hWait.Keyboard = {}
    /\ Suspended
    /\ mPC = hWait.PC /\ mRegisters = hWait.Registers

\* the last iteration of the last Step began waiting for a key with a key pressed
Resumed ==
    hOp = <<"Step">> /\ hWait.KeyboardRegister # NotWaiting /\ hWait.Keyboard # {}

LowestKey(keys) == CHOOSE k \in keys : \A j \in keys : k <= j

\* the engine of hWait after the lowest pressed key has been written to the
\* target register and the wait has ended
AfterResume(now) ==
    [now EXCEPT !.Registers = [hWait.Registers EXCEPT
                                   ![hWait.KeyboardRegister] = LowestKey(hWait.Keyboard)],
                !.PC = hWait.PC,
                !.KeyboardRegister = NotWaiting]

\* C13: on the first step taken while waiting with a key pressed, the target
\* register holds the index of the lowest pressed key and the engine no longer
\* waits, before anything else happens in that step; the other registers keep
\* their values.
KeyResumeWritesLowest ==
    Resumed =>
        /\ hPre.Registers[hWait.KeyboardRegister] = LowestKey(hWait.Keyboard)
        /\ hPre.KeyboardRegister = NotWaiting
        /\ hPre = AfterResume(hPre)

ResumedWithTwoKeys ==
    /\ Resumed
    /\ hWait.Keyboard = {3, 9} /\ hWait.KeyboardRegister = 15
    /\ hWait.Registers[15] = 4
    /\ hPre.Registers[15] = 3

\* C14 as stated: the step that fulfils a pending key wait fetches nothing;
\* after it PC is where it was and the engine differs only in the target
\* register and the ended wait.
ResumeFetchesNothing ==
    Resumed => (hFault = "" /\ Cur = AfterResume(Cur))

\* the instruction stored at address a of ram
WordAt(ram, a) == 256 * Rd(ram, a) + Rd(ram, a + 1)

\* C14 amended: the step that fulfils a pending key wait writes the target
\* register, ends the wait and then fetches and executes the instruction at PC
\* in that same step, or faults on the fetch.
ResumeThenFetch ==
    Resumed =>
        IF hWait.PC + InsSize < RAMSize
        THEN /\ hIns = WordAt(hPre.RAM, hWait.PC)
             /\ hIns \in hDone
             /\ \E o \in Dispatch([AfterResume(hPre) EXCEPT !.PC = hWait.PC + InsSize], hIns) :
                    o.m = Cur /\ o.fault = hFault
        ELSE hFault = "Program counter left RAM" /\ Cur = AfterResume(Cur)

ResumedAndExecuted ==
    /\ Resumed
    /\ hWait.Keyboard = {3} /\ hWait.KeyboardRegister = 3 /\ hWait.PC = OffsetCHIP8 + 2
    /\ hIns = \h7301 /\ hExec = 1
    /\ mRegisters[3] = 4 /\ mPC = OffsetCHIP8 + 4 /\ mKeyboardRegister = NotWaiting

\* C15: Tick takes one off each timer that is above 0, leaves a timer that is
\* 0 at 0, and changes nothing else of the engine.
TickCountsDown ==
    [][hOp' = <<"Tick">> =>
          /\ mDelayTimer' = IF mDelayTimer > 0 THEN mDelayTimer - 1 ELSE 0
          /\ mSoundTimer' = IF mSoundTimer > 0 THEN mSoundTimer - 1 ELSE 0
          /\ UNCHANGED <<mRAM, mDisplayBuffer, mRegisters, mPC, mI, mKeyboard,
                         mKeyboardRegister, mStackFrames, mStack>>]_vars

\* a Tick has counted the delay timer down while the sound timer stayed at 0
TickedOneTimerAtZero ==
    /\ hOp = <<"Tick">>
    /\ hPre.DelayTimer = 2 /\ mDelayTimer = 1
    /\ hPre.SoundTimer = 0 /\ mSoundTimer = 0

IsSetDelay(ins) == ins \div 4096 = 15 /\ ins % 256 = \h15
IsSetSound(ins) == ins \div 4096 = 15 /\ ins % 256 = \h18

\* C16: a Step changes the delay timer only if it executes an FX15 and the
\* sound timer only if it executes an FX18.
StepKeepsTimers ==
    [][hOp' = <<"Step">> =>
          /\ mDelayTimer' # mDelayTimer => \E ins \in hDone' : IsSetDelay(ins)
          /\ mSoundTimer' # mSoundTimer => \E ins \in hDone' : IsSetSound(ins)]_vars

\* an instruction has faulted with both timers running, and left them running
FaultedWithTimersRunning ==
    /\ Stepped /\ hIns = \h8F14 /\ hFault = "Ordering"
    /\ hPre.DelayTimer = 1 /\ mDelayTimer = 1
    /\ hPre.SoundTimer = 2 /\ mSoundTimer = 2

\* C17: sound plays exactly while the sound timer is above 0, that is, from
\* the FX18 that stored v in it until v Ticks have followed, whatever is
\* stepped in between.
SoundPlaysUntilTicked ==
    /\ PlayingSound <=> mSoundTimer > 0
    /\ PlayingSound <=> hSound.ticks < hSound.set
    /\ hSound.ticks <= hSound.set

\* the third Tick after an FX18 that stored 3 has just ended the sound
SoundEndedAtThirdTick ==
    /\ hOp = <<"Tick">>
    /\ hSound.set = 3 /\ hSound.ticks = 3
    /\ hPre.SoundTimer = 1 /\ ~PlayingSound
    /\ hStepped

\* the last Step reached the instruction fetch in its last iteration
FetchAttempted ==
    hOp = <<"Step">> /\ (hIns >= 0 \/ hFault = "Program counter left RAM")

\* C18: a fetch succeeds exactly when PC <= 4094, giving memory[PC] as high
\* and memory[PC+1] as low byte; otherwise it faults and leaves PC alone.
FetchSucceedsInsideMemory ==
    FetchAttempted =>
        IF hPre.PC + 1 < RAMSize
        THEN hIns = WordAt(hPre.RAM, hPre.PC) /\ hFault # "Program counter left RAM"
        ELSE hIns = -1 /\ hFault = "Program counter left RAM" /\ mPC = hPre.PC

\* C19: a word that is no instruction faults as unhandled when it is executed
\* and, but for the PC the fetch advanced, leaves the engine as it was.
UndefinedFaults ==
    (Stepped /\ NoInstruction(hIns)) =>
        /\ hFault = "Unhandled instruction"
        /\ Cur = [hPre EXCEPT !.PC = hPre.PC + InsSize]

UndefinedCompareFaulted ==
    /\ Stepped /\ hIns = \h5011 /\ hPre.PC = OffsetCHIP8
    /\ hFault = "Unhandled instruction" /\ mPC = OffsetCHIP8 + InsSize

IsClear == Stepped /\ hIns = \h00E0 /\ hFault = ""

\* C20: after 00E0 every byte that holds display pixels, 0x0F00 up to the byte
\* of pixel (63,31), is zero, and no byte outside the frame buffer has changed.
ClearUnsetsAllPixels ==
    IsClear =>
        /\ Pixels(mRAM) = Zeroed
        /\ Slice(mRAM, 0, kDisplayStart) = Slice(hPre.RAM, 0, kDisplayStart)

\* C21: NeedsRedraw is true exactly when some display pixel differs from its
\* value at the last Draw (from unset, if there was no Draw yet).
RedrawIffPixelsChanged == NeedsRedraw <=> Pixels(mRAM) # hDrawn

\* the last instruction was a draw that did not fault
Drew == IsDraw /\ hFault = ""

\* 1 if the draw of sprite rows read from ram toggles pixel (px, py), else 0
Toggles(ram, px, py) ==
    LET c == (px - hPre.Registers[InsX] + 256) % kDisplayWidth
        r == (py - hPre.Registers[InsY] + 256) % kDisplayHeight
    IN  IF c < 8 /\ r < InsN THEN Bit(Rd(ram, hPre.I + r), 7 - c) ELSE 0

\* what C22 says of a draw
DrawnAsSprite ==
    /\ \A px \in 0..(kDisplayWidth - 1), py \in 0..(kDisplayHeight - 1) :
          PixelAt(mRAM, px, py) =
              (PixelAt(hPre.RAM, px, py) + Toggles(hPre.RAM, px, py)) % 2
    /\ Slice(mRAM, 0, kDisplayStart) = Slice(hPre.RAM, 0, kDisplayStart)
    /\ \A k \in 0..(NumRegisters - 2) : mRegisters[k] = hPre.Registers[k]
    /\ mRegisters[15] = 1 <=>
          \E px \in 0..(kDisplayWidth - 1), py \in 0..(kDisplayHeight - 1) :
              Toggles(hPre.RAM, px, py) = 1 /\ PixelAt(hPre.RAM, px, py) = 1
    /\ mRegisters[15] \in {0, 1}

\* C22 as stated: DXYN toggles pixel ((VX + c) mod 64, (VY + r) mod 32) iff
\* bit 7 - c of memory[I + r], as it was before the draw, is set; it changes
\* no other pixel, no memory outside the frame buffer and no register but VF,
\* and VF is 1 iff a toggled pixel was set before.
DrawTogglesSourceBits == Drew => DrawnAsSprite

\* C22 amended: the same, for a draw that leaves its own sprite rows
\* memory[I .. I+N-1] as they were.
DrawTogglesUnchangedSourceBits ==
    (Drew /\ Slice(mRAM, hPre.I, InsN) = Slice(hPre.RAM, hPre.I, InsN)) => DrawnAsSprite

\* glyph 1 has been drawn over glyph 0 at (62,30), across both edges, and has
\* unset pixels of it
DrewOverAcrossEdges ==
    /\ Drew /\ hIns = \hD015
    /\ hPre.Registers[0] = 62 /\ hPre.Registers[1] = 30 /\ hPre.I = \h015
    /\ Pixels(hPre.RAM) # Zeroed
    /\ mRegisters[15] = 1

\* C23: after every instruction that completes without a fault PC is an
\* address inside memory.
PCInsideMemory == (Stepped /\ hFault = "") => mPC < RAMSize

\* C24: 8XY4, 8XY5, 8XY6, 8XY7 and 8XYE with X = 0xF or Y = 0xF raise the
\* ordering fault and leave every register as it was.
FlagRegisterOperandFaults ==
    (Stepped /\ InsGroup = 8 /\ InsN \in {4, 5, 6, 7, 14} /\ (InsX = 15 \/ InsY = 15)) =>
        /\ hFault = "Ordering"
        /\ mRegisters = hPre.Registers

ShiftLeftWithFlagOperand ==
    /\ Stepped /\ hIns = \h81FE /\ hFault = "Ordering"
    /\ hPre.Registers[1] = \h81 /\ mRegisters[1] = \h81
    /\ hPre.Registers[15] = 7 /\ mRegisters[15] = 7

IsStore == Stepped /\ InsGroup = 15 /\ InsNN = \h55
IsLoad == Stepped /\ InsGroup = 15 /\ InsNN = \h65

\* ram and old hold the same bytes outside addresses from .. to
SameOutside(ram, old, from, to) ==
    \A a \in DOMAIN ram \cup DOMAIN old : (a < from \/ a > to) => Rd(ram, a) = Rd(old, a)

\* C25: FX55 copies V0..Vr to memory[I..I+r] and FX65 copies memory[I..I+r]
\* to V0..Vr; neither changes I, a register above r or memory outside
\* I..I+r; both fault if I..I+r is not entirely inside memory.
BlockCopyInsideMemory ==
    /\ IsStore =>
          IF hPre.I + InsX < RAMSize
          THEN /\ hFault = ""
               /\ \A k \in 0..InsX : Rd(mRAM, hPre.I + k) = hPre.Registers[k]
               /\ SameOutside(mRAM, hPre.RAM, hPre.I, hPre.I + InsX)
               /\ mI = hPre.I /\ mRegisters = hPre.Registers
          ELSE hFault # ""
    /\ IsLoad =>
          IF hPre.I + InsX < RAMSize
          THEN /\ hFault = ""
               /\ \A k \in 0..(NumRegisters - 1) :
                     mRegisters[k] = IF k <= InsX THEN Rd(hPre.RAM, hPre.I + k)
                                     ELSE hPre.Registers[k]
               /\ mI = hPre.I /\ mRAM = hPre.RAM
          ELSE hFault # ""

IsAddI == Stepped /\ InsGroup = 15 /\ InsNN = \h1E

\* C26: FX1E sets I to I + VX when that is an address inside memory and
\* faults, leaving I alone, when I + VX >= 4096; I is below 4096 in every state.
AddToIStaysInside ==
    /\ mI < RAMSize
    /\ IsAddI =>
          IF hPre.I + hPre.Registers[InsX] < RAMSize
          THEN hFault = "" /\ mI = hPre.I + hPre.Registers[InsX]
          ELSE hFault # "" /\ mI = hPre.I

\* C27: fulfilling a key wait writes exactly one register, the target: every
\* index written is in 0..15 and the other registers keep their values.
ResumeWritesOnlyTarget ==
    Resumed =>
        /\ hRegWrites = {hWait.KeyboardRegister}
        /\ hRegWrites \subseteq 0..(NumRegisters - 1)
        /\ \A k \in 0..(NumRegisters - 1) :
              k # hWait.KeyboardRegister => hPre.Registers[k] = hWait.Registers[k]

\* C28: an instruction that faults leaves registers, I, timers, memory, stack,
\* stack height and key-wait state as they were before it; only PC differs,
\* advanced by 2 by the fetch.
FaultHasNoPartialEffect ==
    (Stepped /\ hFault # "") => Cur = [hPre EXCEPT !.PC = hPre.PC + InsSize]

\* a skip fetched at 0xFFC has faulted with the registers set and PC at 0xFFE
SkipFaultedAtEnd ==
    /\ Stepped /\ hIns = \h9230 /\ hFault = "Branching outside of RAM"
    /\ hPre.PC = \hFFC /\ mPC = \hFFE
    /\ mRegisters[0] = \h92 /\ mRegisters[3] = 1 /\ mI = \hFFC

====
